---- MODULE Spec2Model ----
(***************************************************************************)
(* Conway's Game of Life over a sparse map of live cells (main.go).        *)
(*                                                                         *)
(* The model has these specifications over the same variables:             *)
(*   SpecTick  one call of getNewCellMap on an arbitrary small generation  *)
(*             with an arbitrary chunk count;                              *)
(*   Spec      the whole program: the process loop (startProcessLoop),     *)
(*             its per-tick worker goroutines, and the render/input loop   *)
(*             (startLoop) joined by the buffered channel newMaps;         *)
(*   SpecTimed Spec with the passing of a tick interval during a fan-in;   *)
(*   SpecRefs  Spec with the map object behind each reference to a map;    *)
(*   Spec000   one call of getNewCellMap of the earlier variant,           *)
(*             src/unnamed/part_000.                                       *)
(***************************************************************************)
EXTENDS Integers, Sequences, FiniteSets, TLC

VARIABLES
    paused,              \* state.paused
    schedPc,             \* position of startProcessLoop
    nextMapToProcess,    \* <<>> for nil, <<m>> for a map
    toProcess,           \* the map handed to getNewCellMap (its currentMap)
    workerCount,         \* the chunk count of this getNewCellMap call
    gnPc,                \* position inside getNewCellMap
    chunks,              \* chunkCells' result
    pending,             \* processChunk goroutines spawned and not yet sent
    processedChunkMaps,  \* the fan-in channel of getNewCellMap
    newMap,              \* getNewCellMap's newMap
    completeChunks,      \* getNewCellMap's completeChunks
    newMaps,             \* the handoff channel of startLoop
    currentMap,          \* startLoop's currentMap, the generation on display
    renderPc,            \* position of startLoop inside one frame
    cellMap,             \* the starting generation given to startLoop
    togglesSinceFire,    \* history: Enter presses since the last clock fire
    pausedAtFire,        \* history: state.paused as read at the last clock fire
    overdue,             \* history: a tick interval has passed in this fan-in
    refs                 \* the map object behind each reference to a map

vars == <<paused, schedPc, nextMapToProcess, toProcess, workerCount, gnPc,
          chunks, pending, processedChunkMaps, newMap, completeChunks,
          newMaps, currentMap, renderPc, cellMap, togglesSinceFire,
          pausedAtFire, overdue, refs>>

tickVars == <<toProcess, workerCount, gnPc, chunks, pending,
              processedChunkMaps, newMap, completeChunks>>

schedVars == <<paused, schedPc, nextMapToProcess, newMaps, currentMap,
               renderPc, cellMap, togglesSinceFire, pausedAtFire>>

\* What only SpecTimed and SpecRefs follow.
auxVars == <<overdue, refs>>

----------------------------------------------------------------------------
(* Program constants and model bounds                                      *)

WORKER_COUNT == 4

NEW_MAPS_CAPACITY == 1

\* Largest generation drawn as an input of SpecTick.
MaxCells == 5

\* SpecTick draws the chunk count from 1..MaxWorkers.
MaxWorkers == 4

\* Enter presses counted between two clock fires.
MaxToggles == 2

----------------------------------------------------------------------------
(* Cells and maps                                                          *)

Cell(x, y) == [x |-> x, y |-> y]

\* A nil *Cell, as left in the unused slots of a chunk.
NilCell == [nil |-> TRUE]

getCellKey(x, y) == ToString(x) \o "," \o ToString(y)

EmptyMap == [k \in {} |-> NilCell]

\* m[key] = cell
MapPut(m, key, cell) ==
    [k \in (DOMAIN m) \cup {key} |-> IF k = key THEN cell ELSE m[k]]

\* The coordinates and the cells held by a map.
MapCells(m) == {m[k] : k \in DOMAIN m}

\* The map holding the cells of a set, each under its key.
MapOf(cells) ==
    [k \in {getCellKey(c.x, c.y) : c \in cells} |->
        CHOOSE c \in cells : getCellKey(c.x, c.y) = k]

copyCellMap(m) == [k \in DOMAIN m |-> m[k]]

RECURSIVE Perms(_)
Perms(S) ==
    IF S = {} THEN {<<>>}
    ELSE UNION {{<<e>> \o p : p \in Perms(S \ {e})} : e \in S}

\* `for _, val := range m`: Go leaves the iteration order of a map open.
RangeOrders(m) == Perms(MapCells(m))

----------------------------------------------------------------------------
(* The rule                                                                *)

\* The (i, j) pairs in the order the two nested loops visit them.
Offsets == << <<-1, -1>>, <<-1, 0>>, <<-1, 1>>,
              << 0, -1>>,            << 0, 1>>,
              << 1, -1>>, << 1, 0>>, << 1, 1>> >>

RECURSIVE CountFrom(_, _, _, _)
CountFrom(m, x, y, n) ==
    IF n > Len(Offsets) THEN 0
    ELSE (IF getCellKey(x + Offsets[n][1], y + Offsets[n][2]) \in DOMAIN m
          THEN 1 ELSE 0) + CountFrom(m, x, y, n + 1)

\* The count without `if i == 0 && j == 0 { continue }`: the cell itself is
\* counted with its neighbours.
getCellNeighborCountWithCenter(m, x, y) ==
    CountFrom(m, x, y, 1) + (IF getCellKey(x, y) \in DOMAIN m THEN 1 ELSE 0)

getCellNeighborCount(m, x, y) == CountFrom(m, x, y, 1)

\* The two tests of shouldKillCell on the count it has taken.
killsAtOver4(neighborCount) == neighborCount < 2 \/ neighborCount > 4

killsAt(neighborCount) == neighborCount < 2 \/ neighborCount > 3

shouldKillCell(m, x, y) == killsAt(getCellNeighborCount(m, x, y))

shouldReviveCell(m, x, y) == getCellNeighborCount(m, x, y) = 3

\* The body without its first test: a neighbour that is alive is weighed
\* for revival like a dead one.
reviveAtAliveToo(current, new, currentX, currentY, key) ==
    IF key \in DOMAIN new THEN new
    ELSE IF shouldReviveCell(current, currentX, currentY)
         THEN MapPut(new, key, Cell(currentX, currentY))
         ELSE new

\* The body of reviveCells' inner loop for the neighbour (currentX, currentY).
reviveAt(current, new, currentX, currentY, key) ==
    IF key \in DOMAIN current THEN new
    ELSE IF key \in DOMAIN new THEN new
    ELSE IF shouldReviveCell(current, currentX, currentY)
         THEN MapPut(new, key, Cell(currentX, currentY))
         ELSE new

RECURSIVE ReviveFrom(_, _, _, _)
ReviveFrom(current, new, cell, n) ==
    IF n > Len(Offsets) THEN new
    ELSE ReviveFrom(current,
                    reviveAt(current, new,
                             cell.x + Offsets[n][1], cell.y + Offsets[n][2],
                             getCellKey(cell.x + Offsets[n][1],
                                        cell.y + Offsets[n][2])),
                    cell, n + 1)

reviveCells(current, new, cell) == ReviveFrom(current, new, cell, 1)

\* processCells without its nil check: a nil slot read as the zero Cell.
RECURSIVE processCellsNoNilCheck(_, _, _)
processCellsNoNilCheck(current, new, cells) ==
    IF cells = <<>> THEN new
    ELSE LET cell == IF Head(cells) = NilCell THEN Cell(0, 0) ELSE Head(cells)
             kept == IF ~shouldKillCell(current, cell.x, cell.y)
                     THEN MapPut(new, getCellKey(cell.x, cell.y), cell)
                     ELSE new
         IN  processCellsNoNilCheck(current, reviveCells(current, kept, cell),
                                    Tail(cells))

RECURSIVE processCells(_, _, _)
processCells(current, new, cells) ==
    IF cells = <<>> THEN new
    ELSE LET cell == Head(cells)
         IN  IF cell = NilCell
             THEN processCells(current, new, Tail(cells))
             ELSE LET kept == IF ~shouldKillCell(current, cell.x, cell.y)
                              THEN MapPut(new, getCellKey(cell.x, cell.y), cell)
                              ELSE new
                  IN  processCells(current, reviveCells(current, kept, cell),
                                   Tail(cells))

----------------------------------------------------------------------------
(* chunkCells                                                              *)

\* The round-robin loop over the cells in iteration order.  st.ok turns
\* FALSE at a write past a chunk's capacity (an index-out-of-range panic).
RECURSIVE ChunkFill(_, _, _, _)
ChunkFill(order, n, chunkCount, st) ==
    IF n > Len(order) \/ ~st.ok THEN st
    ELSE LET c          == st.currentChunk
             chunkIndex == st.chunkIndices[c]
         IN  IF chunkIndex >= Len(st.chunks[c])
             THEN [st EXCEPT !.ok = FALSE]
             ELSE ChunkFill(order, n + 1, chunkCount,
                    [st EXCEPT !.chunks[c][chunkIndex + 1] = order[n],
                               !.chunkIndices[c] = chunkIndex + 1,
                               !.currentChunk = ((c - 1 + 1) % chunkCount) + 1])

\* chunkCells with `chunkSize := cellCount / chunkCount`, the slot for the
\* remainder left out.
chunkCellsRunNoSpare(order, chunkCount) ==
    LET cellCount == Len(order)
        chunkSize == cellCount \div chunkCount
    IN  ChunkFill(order, 1, chunkCount,
            [chunks       |-> [c \in 1..chunkCount |->
                                  [k \in 1..chunkSize |-> NilCell]],
             chunkIndices |-> [c \in 1..chunkCount |-> 0],
             currentChunk |-> 1,
             ok           |-> TRUE])

\* order: the cells of cellMap as `range cellMap` yields them.
\* Chunk c of the code is chunk c + 1 here, slot k of the code slot k + 1.
chunkCellsRun(order, chunkCount) ==
    LET cellCount == Len(order)
        chunkSize == (cellCount \div chunkCount) + 1
    IN  ChunkFill(order, 1, chunkCount,
            [chunks       |-> [c \in 1..chunkCount |->
                                  [k \in 1..chunkSize |-> NilCell]],
             chunkIndices |-> [c \in 1..chunkCount |-> 0],
             currentChunk |-> 1,
             ok           |-> TRUE])

\* chunkCells with `chunkIndices[currentChunk]++` left out: every cell given
\* to a chunk lands in its slot 0, over the one before.
chunkCellsNoAdvance(order, chunkCount) ==
    LET chunkSize == (Len(order) \div chunkCount) + 1
        Last(c)   == CHOOSE n \in 1..Len(order) :
                        /\ ((n - 1) % chunkCount) + 1 = c
                        /\ n + chunkCount > Len(order)
    IN  [c \in 1..chunkCount |->
            [k \in 1..chunkSize |->
                IF k = 1 /\ c <= Len(order) THEN order[Last(c)] ELSE NilCell]]

\* chunkCells filling one chunk to its capacity before it starts the next.
chunkCellsFirstFit(order, chunkCount) ==
    LET chunkSize == (Len(order) \div chunkCount) + 1
    IN  [c \in 1..chunkCount |->
            [k \in 1..chunkSize |->
                IF (c - 1) * chunkSize + k <= Len(order)
                THEN order[(c - 1) * chunkSize + k] ELSE NilCell]]

chunkCells(order, chunkCount) == chunkCellsRun(order, chunkCount).chunks

----------------------------------------------------------------------------
(* getNewCellMap                                                           *)

\* `for k, v := range chunkMap { newMap[k] = v }`
mergeChunkMapReplace(new, chunkMap) == chunkMap

mergeChunkMap(new, chunkMap) ==
    [k \in (DOMAIN new) \cup (DOMAIN chunkMap) |->
        IF k \in DOMAIN chunkMap THEN chunkMap[k] ELSE new[k]]

\* The exit test of `for completeChunks < totalChunks`.
fanInDoneOneEarly(complete, totalChunks) == ~(complete < totalChunks - 1)

fanInDone(complete, totalChunks) == ~(complete < totalChunks)

\* cellCount < WORKER_COUNT: the caller's goroutine evaluates every cell.
CallSequential(m) ==
    /\ Cardinality(DOMAIN m) < workerCount
    /\ \E order \in RangeOrders(m) :
           newMap' = processCells(m, EmptyMap, order)
    /\ toProcess' = m
    /\ gnPc' = "returned"
    /\ chunks' = <<>>
    /\ pending' = {}
    /\ processedChunkMaps' = <<>>
    /\ completeChunks' = 0
    /\ UNCHANGED workerCount

\* Otherwise: chunkCells, then one processChunk goroutine per chunk.
CallChunked(m) ==
    /\ ~(Cardinality(DOMAIN m) < workerCount)
    /\ \E order \in RangeOrders(m) :
           IF chunkCellsRun(order, workerCount).ok
           THEN /\ chunks' = chunkCells(order, workerCount)
                /\ pending' = 1..workerCount
                /\ gnPc' = "fanin"
           ELSE /\ chunks' = <<>>
                /\ pending' = {}
                /\ gnPc' = "panic"
    /\ toProcess' = m
    /\ newMap' = EmptyMap
    /\ processedChunkMaps' = <<>>
    /\ completeChunks' = 0
    /\ UNCHANGED workerCount

\* A results channel that holds one value only.
fanInCapacityOne(totalChunks) == 1

\* `make(chan map[string]*Cell, totalChunks)`
fanInCapacity(totalChunks) == totalChunks

\* One processChunk goroutine: evaluate the chunk into a private map, then
\* send it.  The channel holds totalChunks values.
ProcessChunk(w) ==
    /\ w \in pending
    /\ Len(processedChunkMaps) < fanInCapacity(Len(chunks))
    /\ processedChunkMaps' =
           Append(processedChunkMaps, processCells(toProcess, EmptyMap, chunks[w]))
    /\ pending' = pending \ {w}
    /\ UNCHANGED <<toProcess, workerCount, gnPc, chunks, newMap, completeChunks>>

\* One round of the fan-in loop; the loop test that follows it is part of
\* the step, and the function returns when the test fails.
ReceiveChunk ==
    /\ gnPc = "fanin"
    /\ processedChunkMaps # <<>>
    /\ newMap' = mergeChunkMap(newMap, Head(processedChunkMaps))
    /\ processedChunkMaps' = Tail(processedChunkMaps)
    /\ completeChunks' = completeChunks + 1
    /\ gnPc' = IF fanInDone(completeChunks + 1, Len(chunks))
               THEN "returned" ELSE "fanin"
    /\ UNCHANGED <<toProcess, workerCount, chunks, pending>>

----------------------------------------------------------------------------
(* startProcessLoop                                                        *)

createGameState == [paused |-> TRUE]

\* The two `continue`s after time.Sleep.
skipsTickIgnoringPause(isPaused, next) == next = <<>>

skipsTick(isPaused, next) == isPaused \/ next = <<>>

\* time.Sleep returns and the tick is skipped.  state.paused is read with no
\* synchronisation with the render loop's write; the read returns the value
\* written last, before or after a concurrent press as the steps interleave.
SchedFireSkip ==
    /\ schedPc = "sleep"
    /\ skipsTick(paused, nextMapToProcess)
    /\ togglesSinceFire' = 0
    /\ pausedAtFire' = paused
    /\ UNCHANGED <<paused, schedPc, nextMapToProcess, newMaps, currentMap,
                   renderPc, cellMap>>
    /\ UNCHANGED tickVars

\* time.Sleep returns and a tick starts: toProcess is taken,
\* nextMapToProcess is cleared and getNewCellMap is entered.
SchedFireRun ==
    /\ schedPc = "sleep"
    /\ ~skipsTick(paused, nextMapToProcess)
    /\ \/ CallSequential(nextMapToProcess[1])
       \/ CallChunked(nextMapToProcess[1])
    /\ nextMapToProcess' = <<>>
    /\ schedPc' = "compute"
    /\ togglesSinceFire' = 0
    /\ pausedAtFire' = paused
    /\ UNCHANGED <<paused, newMaps, currentMap, renderPc, cellMap>>

\* getNewCellMap has returned: nextMapToProcess = copyCellMap(newMap).
SchedAssign ==
    /\ schedPc = "compute"
    /\ gnPc = "returned"
    /\ nextMapToProcess' = <<copyCellMap(newMap)>>
    /\ schedPc' = "publish"
    /\ UNCHANGED <<paused, newMaps, currentMap, renderPc, cellMap,
                   togglesSinceFire, pausedAtFire>>
    /\ UNCHANGED tickVars

\* A tick whose send is given up when the game was paused meanwhile.
SchedPublishUnlessPaused ==
    /\ schedPc = "publish"
    /\ paused \/ Len(newMaps) < NEW_MAPS_CAPACITY
    /\ newMaps' = IF paused THEN newMaps
                  ELSE Append(newMaps, copyCellMap(newMap))
    /\ schedPc' = "sleep"
    /\ UNCHANGED <<paused, nextMapToProcess, currentMap, renderPc, cellMap,
                   togglesSinceFire, pausedAtFire>>
    /\ UNCHANGED tickVars

\* A send that replaces the generation waiting in a full channel.
SchedPublishOverwrite ==
    /\ schedPc = "publish"
    /\ newMaps' = IF Len(newMaps) < NEW_MAPS_CAPACITY
                  THEN Append(newMaps, copyCellMap(newMap))
                  ELSE <<copyCellMap(newMap)>>
    /\ schedPc' = "sleep"
    /\ UNCHANGED <<paused, nextMapToProcess, currentMap, renderPc, cellMap,
                   togglesSinceFire, pausedAtFire>>
    /\ UNCHANGED tickVars

\* `maps <- copyCellMap(newMap)`: a send on a channel of capacity 1, which
\* waits while the channel is full.
SchedPublish ==
    /\ schedPc = "publish"
    /\ Len(newMaps) < NEW_MAPS_CAPACITY
    /\ newMaps' = Append(newMaps, copyCellMap(newMap))
    /\ schedPc' = "sleep"
    /\ UNCHANGED <<paused, nextMapToProcess, currentMap, renderPc, cellMap,
                   togglesSinceFire, pausedAtFire>>
    /\ UNCHANGED tickVars

----------------------------------------------------------------------------
(* startLoop                                                               *)

\* A select that always keeps the map on display.
selectNewMapNever(ch, shown) == [map |-> shown, ch |-> ch]

\* `select { case newMap := <-newMaps: ... default: }`
selectNewMap(ch, shown) ==
    IF ch # <<>> THEN [map |-> Head(ch), ch |-> Tail(ch)]
    ELSE [map |-> shown, ch |-> ch]

\* An Enter press that pauses but never resumes.
pressEnterPauseOnly(isPaused) == TRUE

\* `state.paused = !state.paused`
pressEnter(isPaused) == ~isPaused

\* The select at the head of a frame.
RenderPoll ==
    /\ renderPc = "poll"
    /\ currentMap' = selectNewMap(newMaps, currentMap).map
    /\ newMaps' = selectNewMap(newMaps, currentMap).ch
    /\ renderPc' = "input"
    /\ UNCHANGED <<paused, schedPc, nextMapToProcess, cellMap,
                   togglesSinceFire, pausedAtFire>>
    /\ UNCHANGED tickVars

\* The rest of the frame with Enter just pressed.
RenderInputEnter ==
    /\ renderPc = "input"
    /\ togglesSinceFire < MaxToggles
    /\ paused' = pressEnter(paused)
    /\ togglesSinceFire' = togglesSinceFire + 1
    /\ renderPc' = "poll"
    /\ UNCHANGED <<schedPc, nextMapToProcess, newMaps, currentMap, cellMap,
                   pausedAtFire>>
    /\ UNCHANGED tickVars

\* The rest of the frame without it.
RenderInputNone ==
    /\ renderPc = "input"
    /\ renderPc' = "poll"
    /\ UNCHANGED <<paused, schedPc, nextMapToProcess, newMaps, currentMap,
                   cellMap, togglesSinceFire, pausedAtFire>>
    /\ UNCHANGED tickVars

----------------------------------------------------------------------------
(* The program                                                             *)

\* A map object is named by the make that allocated it, the worker that
\* ran it (0 outside processChunk) and a number.
MapObject(site, w, n) == <<site, w, n>>

\* A nil map reference.
NoMap == MapObject("nil", 0, 0)

\* At the start currentMap of startLoop and nextMapToProcess of
\* startProcessLoop are the one map main has read.
InitRefs == [shown     |-> MapObject("getStartingCells", 0, 1),
             chan      |-> <<>>,
             next      |-> MapObject("getStartingCells", 0, 1),
             toProcess |-> NoMap,
             newMap    |-> NoMap,
             sent      |-> <<>>]

Blinker == {Cell(0, 0), Cell(1, 0), Cell(2, 0)}

Block == {Cell(0, 0), Cell(1, 0), Cell(0, 1), Cell(1, 1)}

\* Three cells that leave one cell after a tick and none after two.
Diagonal == {Cell(0, 0), Cell(1, 1), Cell(2, 2)}

StartingMaps == {EmptyMap, MapOf(Blinker), MapOf(Block), MapOf(Diagonal)}

Init ==
    /\ cellMap \in StartingMaps
    /\ paused = createGameState.paused
    /\ schedPc = "sleep"
    /\ nextMapToProcess = <<cellMap>>
    /\ newMaps = <<>>
    /\ currentMap = cellMap
    /\ renderPc = "poll"
    /\ toProcess = EmptyMap
    /\ workerCount = WORKER_COUNT
    /\ gnPc = "idle"
    /\ chunks = <<>>
    /\ pending = {}
    /\ processedChunkMaps = <<>>
    /\ newMap = EmptyMap
    /\ completeChunks = 0
    /\ togglesSinceFire = 0
    /\ pausedAtFire = createGameState.paused
    /\ overdue = FALSE
    /\ refs = InitRefs

Worker ==
    /\ \E w \in pending : ProcessChunk(w)
    /\ UNCHANGED schedVars

FanIn == ReceiveChunk /\ UNCHANGED schedVars

Next ==
    \/ SchedFireSkip /\ UNCHANGED auxVars
    \/ SchedFireRun /\ UNCHANGED auxVars
    \/ Worker /\ UNCHANGED auxVars
    \/ FanIn /\ UNCHANGED auxVars
    \/ SchedAssign /\ UNCHANGED auxVars
    \/ SchedPublish /\ UNCHANGED auxVars
    \/ RenderPoll /\ UNCHANGED auxVars
    \/ RenderInputEnter /\ UNCHANGED auxVars
    \/ RenderInputNone /\ UNCHANGED auxVars

Spec == Init /\ [][Next]_vars

----------------------------------------------------------------------------
(* One call of getNewCellMap, or of chunkCells, on a drawn input           *)

Grid == {Cell(x, y) : x \in 0..2, y \in 0..1}

Generations == {MapOf(S) : S \in {T \in SUBSET Grid : Cardinality(T) <= MaxCells}}

WorkerCounts == 1..MaxWorkers

InitTick ==
    /\ cellMap \in Generations
    /\ workerCount \in WorkerCounts
    /\ toProcess = cellMap
    /\ paused = createGameState.paused
    /\ schedPc = "call"
    /\ nextMapToProcess = <<>>
    /\ newMaps = <<>>
    /\ currentMap = cellMap
    /\ renderPc = "off"
    /\ gnPc = "idle"
    /\ chunks = <<>>
    /\ pending = {}
    /\ processedChunkMaps = <<>>
    /\ newMap = EmptyMap
    /\ completeChunks = 0
    /\ togglesSinceFire = 0
    /\ pausedAtFire = createGameState.paused
    /\ overdue = FALSE
    /\ refs = InitRefs

\* getNewCellMap(cellMap)
TickCall ==
    /\ gnPc = "idle"
    /\ \/ CallSequential(cellMap)
       \/ CallChunked(cellMap)
    /\ UNCHANGED schedVars

\* chunkCells(cellMap, workerCount) on its own, whatever the two sizes.
ChunkCellsCall ==
    /\ gnPc = "idle"
    /\ \E order \in RangeOrders(cellMap) :
           IF chunkCellsRun(order, workerCount).ok
           THEN /\ chunks' = chunkCells(order, workerCount)
                /\ gnPc' = "chunked"
           ELSE /\ chunks' = <<>>
                /\ gnPc' = "panic"
    /\ UNCHANGED <<toProcess, workerCount, pending, processedChunkMaps,
                   newMap, completeChunks>>
    /\ UNCHANGED schedVars

\* One processChunk goroutine sends its map and the fan-in loop receives
\* it at once: the results reach the driver in any order, one at a time,
\* and the channel is empty between two such steps.
TickWorker ==
    /\ gnPc = "fanin"
    /\ processedChunkMaps = <<>>
    /\ \E w \in pending :
           /\ newMap' = mergeChunkMap(newMap,
                            processCells(toProcess, EmptyMap, chunks[w]))
           /\ pending' = pending \ {w}
    /\ completeChunks' = completeChunks + 1
    /\ gnPc' = IF fanInDone(completeChunks + 1, Len(chunks))
               THEN "returned" ELSE "fanin"
    /\ UNCHANGED <<toProcess, workerCount, chunks, processedChunkMaps>>
    /\ UNCHANGED schedVars

NextTick ==
    \/ TickCall /\ UNCHANGED auxVars
    \/ ChunkCellsCall /\ UNCHANGED auxVars
    \/ TickWorker /\ UNCHANGED auxVars

SpecTick == InitTick /\ [][NextTick]_vars

----------------------------------------------------------------------------
(* The rule stated on coordinate sets, without maps and keys               *)

Coords(m) == {<<m[k].x, m[k].y>> : k \in DOMAIN m}

NeighborsOf(c) ==
    {<<c[1] + i, c[2] + j>> : i \in -1..1, j \in -1..1} \ {c}

LiveNeighbors(G, c) == Cardinality(NeighborsOf(c) \cap G)

\* Every coordinate that is live or next to a live one.
Candidates(G) == G \cup UNION {NeighborsOf(c) : c \in G}

Survivors(G, R) == {c \in R : LiveNeighbors(G, c) \in {2, 3}}

Births(G, R) ==
    {c \in UNION {NeighborsOf(r) : r \in R} : c \notin G /\ LiveNeighbors(G, c) = 3}

RuleNext(G) == Survivors(G, G) \cup Births(G, G)

WellKeyed(m) ==
    \A k \in DOMAIN m : m[k] # NilCell /\ k = getCellKey(m[k].x, m[k].y)

----------------------------------------------------------------------------
(* Claims on getNewCellMap and chunkCells, under SpecTick                  *)

\* C1: whatever path getNewCellMap takes, the map it returns holds exactly
\* the live cells of the input with 2 or 3 live neighbours and the dead
\* coordinates with exactly 3; nothing else, and nothing of these missing.
C1_NextIsRule ==
    gnPc = "returned" =>
        /\ WellKeyed(newMap)
        /\ Coords(newMap) = RuleNext(Coords(toProcess))

\* A chunked call with WORKER_COUNT workers has returned on an input in
\* which a cell dies of more than 3 neighbours, one survives, one is born.
C1_Witness ==
    LET G == Coords(toProcess)
    IN  /\ gnPc = "returned"
        /\ workerCount = WORKER_COUNT
        /\ completeChunks = WORKER_COUNT
        /\ \E c \in G : LiveNeighbors(G, c) > 3
        /\ Survivors(G, G) # {}
        /\ Births(G, G) # {}

\* One iteration order of a set of cells, always the same one.
RECURSIVE FixedOrder(_)
FixedOrder(S) ==
    IF S = {} THEN <<>>
    ELSE LET e == CHOOSE c \in S : TRUE
         IN  <<e>> \o FixedOrder(S \ {e})

\* The pipeline with one chunk, on that order.
ReferenceTick(m) ==
    mergeChunkMap(EmptyMap,
                  processCells(m, EmptyMap,
                               chunkCells(FixedOrder(MapCells(m)), 1)[1]))

\* C2: the coordinates a tick produces are those of the one-chunk pipeline
\* on a fixed order, whatever the chunk count, the iteration order of the
\* map and the order in which the workers' results arrive.
C2_SameForEveryWorkerCount ==
    gnPc = "returned" => Coords(newMap) = Coords(ReferenceTick(toProcess))

\* Several workers have reported and the generation has changed.
C2_Witness ==
    /\ gnPc = "returned"
    /\ workerCount > 1
    /\ completeChunks = workerCount
    /\ Coords(newMap) # {}
    /\ Coords(newMap) # Coords(toProcess)

\* The slots of the chunks that hold a cell.
RealSlots == {s \in {<<c, k>> : c \in DOMAIN chunks, k \in 1..(Cardinality(DOMAIN cellMap) + 1)} :
                 s[2] \in DOMAIN chunks[s[1]] /\ chunks[s[1]][s[2]] # NilCell}

RealCells(chunk) == {<<chunk[k].x, chunk[k].y>> : k \in {j \in DOMAIN chunk : chunk[j] # NilCell}}

\* The chunks as chunkCells has just returned them.
ChunksFresh == gnPc = "chunked" \/ (gnPc = "fanin" /\ completeChunks = 0)

\* C3: the slots of the chunks that are not nil hold each cell of the
\* generation exactly once, and processCells on a chunk yields what the
\* rule gives for the chunk's real cells alone: a nil slot is no cell.
C3_ChunksPartition ==
    /\ ChunksFresh =>
          /\ Len(chunks) = workerCount
          /\ \A s \in RealSlots : chunks[s[1]][s[2]] \in MapCells(cellMap)
          /\ \A cell \in MapCells(cellMap) :
                 Cardinality({s \in RealSlots : chunks[s[1]][s[2]] = cell}) = 1
    /\ gnPc = "chunked" =>
          \A c \in DOMAIN chunks :
              Coords(processCells(cellMap, EmptyMap, chunks[c])) =
                  Survivors(Coords(cellMap), RealCells(chunks[c]))
                      \cup Births(Coords(cellMap), RealCells(chunks[c]))

\* Five cells over four chunks: one chunk is full, another has a nil slot.
C3_Witness ==
    /\ gnPc \in {"chunked", "fanin"}
    /\ Cardinality(DOMAIN cellMap) = 5
    /\ Len(chunks) = 4
    /\ \E c \in DOMAIN chunks : \A k \in DOMAIN chunks[c] : chunks[c][k] # NilCell
    /\ \E c \in DOMAIN chunks : \E k \in DOMAIN chunks[c] : chunks[c][k] = NilCell

----------------------------------------------------------------------------
(* Claims on the two loops, under Spec                                     *)

\* C4: when the process loop is at its send with a generation still in the
\* channel, that generation is dropped for the new one, so the select of
\* the render loop then takes the generation computed last.
C4_PublishOverwrites ==
    [][(/\ schedPc = "publish"
        /\ Len(newMaps) = NEW_MAPS_CAPACITY
        /\ RenderPoll) => currentMap' = nextMapToProcess[1]]_vars

\* C5: the send of the process loop never waits for the render loop: at
\* the send, the step is always possible.
C5_PublishNeverWaits ==
    schedPc = "publish" => ENABLED SchedPublish

\* C6: the select of the render loop is possible in every state in which
\* the loop stands before it; it takes the generation in the channel if
\* there is one, and keeps the one on display and the channel otherwise.
C6_RenderNeverBlocks ==
    /\ [](renderPc = "poll" => ENABLED RenderPoll)
    /\ [][(renderPc = "poll" /\ renderPc' # "poll") =>
             IF newMaps # <<>>
             THEN currentMap' = Head(newMaps) /\ newMaps' = Tail(newMaps)
             ELSE currentMap' = currentMap /\ newMaps' = newMaps]_vars

\* A frame has taken a generation other than the first one while the
\* process loop is in the middle of a tick.
C6_Witness ==
    /\ renderPc = "input"
    /\ currentMap # cellMap
    /\ schedPc = "compute"

\* C7: the game starts paused, only an Enter press changes that, and a
\* step from the sleep with the game paused starts no tick, leaves
\* nextMapToProcess and getNewCellMap's state alone and sends nothing.
C7_PausedFireIsNoOp ==
    /\ paused = TRUE
    /\ [][/\ (paused' # paused => togglesSinceFire' = togglesSinceFire + 1)
          /\ (schedPc = "sleep" /\ paused) =>
                /\ schedPc' = "sleep"
                /\ UNCHANGED nextMapToProcess
                /\ UNCHANGED tickVars
                /\ newMaps' = newMaps \/ (newMaps # <<>> /\ newMaps' = Tail(newMaps))
         ]_vars

\* After a tick has run, the last fire found the game paused.
C7_Witness ==
    /\ schedPc = "sleep"
    /\ gnPc = "returned"
    /\ paused
    /\ pausedAtFire
    /\ togglesSinceFire = 0

\* The state a fire meets, from the state the fire before met and the
\* number of Enter presses in between.
StateAfterToggles == pausedAtFire # (togglesSinceFire % 2 = 1)

\* C8: an Enter press flips the state, and a fire starts a tick exactly if
\* the state met by the fire before, flipped once if the number of presses
\* since is odd, is Running.
C8_OnlyParityMatters ==
    [][/\ (togglesSinceFire' = togglesSinceFire + 1 => paused' = ~paused)
       /\ (SchedFireSkip \/ SchedFireRun) =>
             (schedPc' = "compute") = ~StateAfterToggles
      ]_vars

\* The loop sleeps after a tick, Running, two presses after its last fire.
C8_Witness ==
    /\ schedPc = "sleep"
    /\ gnPc = "returned"
    /\ togglesSinceFire = 2
    /\ ~paused
    /\ ~pausedAtFire

\* The generation the next tick is to start from: the result of the tick
\* before, or the starting generation.
LastGeneration == IF gnPc = "idle" THEN cellMap ELSE newMap

\* C9: outside the compute phase no worker is running and no result is in
\* the fan-in channel; a tick starts only when the tick before has merged
\* all its chunks, its input is the generation that tick produced, and the
\* input is not replaced while the tick is running.
C9_TicksSequential ==
    /\ [](schedPc # "compute" => pending = {} /\ processedChunkMaps = <<>>)
    /\ [][/\ (schedPc = "sleep" /\ schedPc' = "compute") =>
                /\ gnPc \in {"idle", "returned"}
                /\ completeChunks = Len(chunks)
                /\ toProcess' = LastGeneration
          /\ (schedPc = "compute" /\ schedPc' = "compute") =>
                toProcess' = toProcess
         ]_vars

\* A tick is in its fan-in while the result of the tick before is still in
\* the handoff channel.
C9_Witness ==
    /\ schedPc = "compute"
    /\ gnPc = "fanin"
    /\ completeChunks < Len(chunks)
    /\ Len(newMaps) = 1

\* C10: a tick that has started leaves the compute phase only with the
\* merged map as nextMapToProcess, and goes back to sleep only by sending
\* that generation; an Enter press changes nothing of the tick.
C10_TickNotCancelled ==
    [][/\ (schedPc = "compute" /\ schedPc' # "compute") =>
             /\ schedPc' = "publish"
             /\ gnPc = "returned"
             /\ completeChunks = Len(chunks)
             /\ nextMapToProcess' = <<newMap>>
       /\ (schedPc = "publish" /\ schedPc' # "publish") =>
             /\ schedPc' = "sleep"
             /\ newMaps' = Append(newMaps, nextMapToProcess[1])
       /\ (paused' # paused) =>
             /\ UNCHANGED <<schedPc, nextMapToProcess, newMaps>>
             /\ UNCHANGED tickVars
      ]_vars

\* A tick started Running has gone through to its send and the loop sleeps
\* again, the game paused by the one press since the tick started.
C10_Witness ==
    /\ schedPc = "sleep"
    /\ ~pausedAtFire
    /\ paused
    /\ togglesSinceFire = 1
    /\ Len(newMaps) = 1
    /\ newMaps[1] = nextMapToProcess[1]

----------------------------------------------------------------------------
(* Claims on the workers' partial results and on the chunking policy,      *)
(* under SpecTick                                                          *)

\* What each processChunk goroutine sends for the chunks just built.
PartialResults ==
    [c \in DOMAIN chunks |-> processCells(cellMap, EmptyMap, chunks[c])]

\* C13: a key two workers both send is a cell dead in the input with
\* exactly 3 live neighbours, and both send the same cell for it; a cell
\* that survives is sent by one worker only; and the map merged from the
\* results, in whatever order they arrive, has one key per coordinate.
C13_DuplicatesAreBirths ==
    /\ gnPc = "chunked" =>
          \A P \in {PartialResults} :
              /\ \A c1, c2 \in DOMAIN P :
                     c1 # c2 =>
                         \A k \in (DOMAIN P[c1]) \cap (DOMAIN P[c2]) :
                             /\ k \notin DOMAIN cellMap
                             /\ P[c1][k] = P[c2][k]
                             /\ LiveNeighbors(Coords(cellMap),
                                              <<P[c1][k].x, P[c1][k].y>>) = 3
              /\ \A k \in DOMAIN cellMap :
                     Cardinality({c \in DOMAIN P : k \in DOMAIN P[c]}) =
                         IF LiveNeighbors(Coords(cellMap),
                                          <<cellMap[k].x, cellMap[k].y>>) \in {2, 3}
                         THEN 1 ELSE 0
    /\ gnPc = "returned" =>
          /\ WellKeyed(newMap)
          /\ Cardinality(DOMAIN newMap) = Cardinality(Coords(newMap))

\* Two workers have both sent the same newly born cell while a third cell
\* of the input survives.
C13_Witness ==
    /\ gnPc = "chunked"
    /\ \E c1, c2 \in DOMAIN chunks :
           /\ c1 # c2
           /\ (DOMAIN PartialResults[c1]) \cap (DOMAIN PartialResults[c2]) # {}
    /\ Survivors(Coords(cellMap), Coords(cellMap)) # {}

\* The number of cells chunkCells has put in chunk c.
RealCount(c) == Cardinality({k \in DOMAIN chunks[c] : chunks[c][k] # NilCell})

\* ceil(n / w)
CeilDiv(n, w) == (n + w - 1) \div w

\* C14: getNewCellMap on fewer cells than workers evaluates them all in the
\* caller, with no chunk built and no worker started; on more, the cells
\* are in exactly workerCount chunks, none with more than ceil(N/W) cells
\* and no two with counts more than one apart.
C14_ChunkingPolicy ==
    LET N == Cardinality(DOMAIN cellMap)
    IN  /\ (gnPc \in {"fanin", "returned", "panic"} /\ N < workerCount) =>
               /\ gnPc = "returned"
               /\ chunks = <<>>
               /\ pending = {}
               /\ completeChunks = 0
        /\ (gnPc \in {"chunked", "fanin", "returned", "panic"}
                /\ ~(N < workerCount)) =>
               /\ gnPc # "panic"
               /\ Len(chunks) = workerCount
               /\ \A c \in DOMAIN chunks : RealCount(c) <= CeilDiv(N, workerCount)
               /\ \A c1, c2 \in DOMAIN chunks : RealCount(c1) - RealCount(c2) <= 1
               /\ (gnPc = "fanin" /\ completeChunks = 0) => pending = DOMAIN chunks

\* Five cells dealt to four chunks as 2, 1, 1, 1, every worker started.
C14_Witness ==
    /\ gnPc = "fanin"
    /\ Cardinality(DOMAIN cellMap) = 5
    /\ workerCount = 4
    /\ pending = 1..4
    /\ RealCount(1) = 2
    /\ \A c \in 2..4 : RealCount(c) = 1

\* C19: chunkCells, called by getNewCellMap or on its own, never writes a
\* slot at or past the chunkSize it allocated: the call never panics, the
\* chunks it returns have cellCount / chunkCount + 1 slots each, and the
\* cells written to a chunk sit in its first slots.
C19_FillStaysInCapacity ==
    /\ gnPc # "panic"
    /\ ChunksFresh =>
          \A c \in DOMAIN chunks :
              /\ Len(chunks[c]) =
                     (Cardinality(DOMAIN cellMap) \div workerCount) + 1
              /\ \A k \in DOMAIN chunks[c] :
                     chunks[c][k] # NilCell <=> k <= RealCount(c)

\* Five cells over two chunks of three slots: the first chunk was written
\* up to its last slot.
C19_Witness ==
    /\ gnPc = "chunked"
    /\ workerCount = 2
    /\ Cardinality(DOMAIN cellMap) = 5
    /\ RealCount(1) = Len(chunks[1])
    /\ RealCount(2) = 2

----------------------------------------------------------------------------
(* The earlier variant of the tick, src/unnamed/part_000                   *)

MapRemove(m, key) == [k \in (DOMAIN m) \ {key} |-> m[k]]

\* `cellCount < WORKER_COUNT*5`
SEQUENTIAL_FACTOR == 5

\* chunkCells there: chunkSize from chunkCount / cellCount, and every
\* chunk's index starting at 1.  Called with one cell at least.
chunkCellsRun000(order, chunkCount) ==
    LET cellCount == Len(order)
        chunkSize == (chunkCount \div cellCount) + 1
    IN  ChunkFill(order, 1, chunkCount,
            [chunks       |-> [c \in 1..chunkCount |->
                                  [k \in 1..chunkSize |-> NilCell]],
             chunkIndices |-> [c \in 1..chunkCount |-> 1],
             currentChunk |-> 1,
             ok           |-> TRUE])

\* processCells there: it deletes the cells that die from a copy of the
\* current map, and reads cell.x of every slot.  st.ok turns FALSE at a
\* nil slot (a nil-pointer dereference).
RECURSIVE processCells000(_, _, _)
processCells000(current, st, cells) ==
    IF cells = <<>> \/ ~st.ok THEN st
    ELSE LET cell == Head(cells)
         IN  IF cell = NilCell
             THEN [st EXCEPT !.ok = FALSE]
             ELSE LET kept == IF shouldKillCell(current, cell.x, cell.y)
                              THEN MapRemove(st.map, getCellKey(cell.x, cell.y))
                              ELSE st.map
                  IN  processCells000(current,
                          [st EXCEPT !.map = reviveCells(current, kept, cell)],
                          Tail(cells))

\* `for _, chunk := range chunks { processCells(currentMap, newMap, chunk) }`
RECURSIVE processChunks000(_, _, _, _)
processChunks000(current, st, chunkList, n) ==
    IF n > Len(chunkList) THEN st
    ELSE processChunks000(current,
                          processCells000(current, st, chunkList[n]),
                          chunkList, n + 1)

\* getNewCellMap there, on fewer than WORKER_COUNT*5 cells.
Sequential000 ==
    /\ gnPc = "idle"
    /\ Cardinality(DOMAIN cellMap) < WORKER_COUNT * SEQUENTIAL_FACTOR
    /\ \E order \in RangeOrders(cellMap) :
           newMap' = processCells000(cellMap,
                         [map |-> copyCellMap(cellMap), ok |-> TRUE], order).map
    /\ gnPc' = "returned"
    /\ UNCHANGED <<toProcess, workerCount, chunks, pending, processedChunkMaps,
                   completeChunks>>
    /\ UNCHANGED schedVars

\* The other branch up to the return of chunkCells, whatever the two sizes.
\* With no cell the division is by zero.
ChunkCells000 ==
    /\ gnPc = "idle"
    /\ \E order \in RangeOrders(cellMap) :
           IF Len(order) # 0 /\ chunkCellsRun000(order, workerCount).ok
           THEN /\ chunks' = chunkCellsRun000(order, workerCount).chunks
                /\ gnPc' = "chunked"
           ELSE /\ chunks' = <<>>
                /\ gnPc' = "panic"
    /\ newMap' = copyCellMap(cellMap)
    /\ UNCHANGED <<toProcess, workerCount, pending, processedChunkMaps,
                   completeChunks>>
    /\ UNCHANGED schedVars

\* The loop over the chunks that follows.
ProcessChunks000 ==
    /\ gnPc = "chunked"
    /\ \E st \in {processChunks000(cellMap, [map |-> newMap, ok |-> TRUE],
                                   chunks, 1)} :
           /\ newMap' = st.map
           /\ gnPc' = IF st.ok THEN "returned" ELSE "nilpanic"
    /\ UNCHANGED <<toProcess, workerCount, chunks, pending, processedChunkMaps,
                   completeChunks>>
    /\ UNCHANGED schedVars

Next000 ==
    \/ Sequential000 /\ UNCHANGED auxVars
    \/ ChunkCells000 /\ UNCHANGED auxVars
    \/ ProcessChunks000 /\ UNCHANGED auxVars

Spec000 == InitTick /\ [][Next000]_vars

\* C20: in the earlier variant, on one cell at least, chunkCells writes no
\* slot outside a chunk and the loop over the chunks meets no nil slot, so
\* the chunked branch of getNewCellMap returns.
C20_ChunkedBranchReturns000 ==
    Cardinality(DOMAIN cellMap) >= 1 => gnPc \notin {"panic", "nilpanic"}

----------------------------------------------------------------------------
(* Claims on the fan-in and on the pause flag, under Spec                  *)

\* What is left of a fan-in: two steps for a worker that has not sent, one
\* for a map sent and not received.
FanInLeft == 2 * Cardinality(pending) + Len(processedChunkMaps)

\* C16: during a fan-in every chunk's map is with its worker, in the
\* channel or merged, once; the channel has room for the map of a worker
\* that has not sent; a worker can send or the driver can receive, and
\* each such step brings the end of the fan-in nearer; and getNewCellMap returns with all totalChunks maps
\* merged, the channel empty and no worker left.
C16_FanInCompletes ==
    /\ [](gnPc = "fanin" =>
             /\ Cardinality(pending) + Len(processedChunkMaps) + completeChunks
                    = Len(chunks)
             /\ pending # {} =>
                    Len(processedChunkMaps) < fanInCapacity(Len(chunks))
             /\ pending # {} \/ processedChunkMaps # <<>>)
    /\ []((gnPc = "returned" /\ chunks # <<>>) =>
             /\ completeChunks = Len(chunks)
             /\ pending = {}
             /\ processedChunkMaps = <<>>
             /\ Coords(newMap) = RuleNext(Coords(toProcess)))
    /\ [][gnPc = "fanin" =>
             \/ FanInLeft' < FanInLeft
             \/ UNCHANGED tickVars]_vars

\* All four workers have sent before the driver has received one map: the
\* channel is at its capacity.
C16_Witness ==
    /\ gnPc = "fanin"
    /\ Len(chunks) = WORKER_COUNT
    /\ Len(processedChunkMaps) = Len(chunks)
    /\ pending = {}
    /\ completeChunks = 0

\* How the two loops reach GameState.paused: a plain bool field, assigned
\* in startLoop and tested in startProcessLoop with no mutex, no atomic
\* and no channel in between.
pausedAccess == [write |-> "plain", read |-> "plain"]

\* The render loop is at `state.paused = !state.paused`.
PausedWriteNext == ENABLED RenderInputEnter

\* The process loop is at `if state.paused || nextMapToProcess == nil`.
PausedReadNext == schedPc = "sleep"

\* C17: the write of the pause flag by the render loop and its read by the
\* process loop are never both the next step of their goroutines unless
\* the accesses are synchronised.
C17_PausedSynchronised ==
    (PausedWriteNext /\ PausedReadNext) =>
        (pausedAccess.write # "plain" /\ pausedAccess.read # "plain")

----------------------------------------------------------------------------
(* Claims on the generations the process loop publishes, under Spec        *)

HorizontalBlinker == {<<0, 0>>, <<1, 0>>, <<2, 0>>}

VerticalBlinker == {<<1, -1>>, <<1, 0>>, <<1, 1>>}

OtherBlinker(G) == IF G = HorizontalBlinker THEN VerticalBlinker
                   ELSE HorizontalBlinker

\* C15: started on the horizontal blinker, a tick on the horizontal one
\* returns the vertical one and a tick on the vertical one the horizontal
\* one; the first tick runs on the starting map and every later one on the
\* generation published last; and each generation published is the other
\* blinker than the input of its tick, so the published ones alternate.
C15_BlinkerPeriodTwo ==
    /\ []((cellMap = MapOf(Blinker) /\ gnPc = "returned") =>
             /\ Coords(toProcess) \in {HorizontalBlinker, VerticalBlinker}
             /\ Coords(toProcess) = HorizontalBlinker =>
                    Coords(newMap) = VerticalBlinker
             /\ Coords(toProcess) = VerticalBlinker =>
                    Coords(newMap) = HorizontalBlinker)
    /\ [][cellMap = MapOf(Blinker) =>
             /\ (schedPc = "sleep" /\ schedPc' = "compute") =>
                    toProcess' = LastGeneration
             /\ (schedPc = "publish" /\ schedPc' = "sleep") =>
                    /\ Len(newMaps') = Len(newMaps) + 1
                    /\ Coords(newMaps'[Len(newMaps')]) =
                           OtherBlinker(Coords(toProcess))
                    /\ newMaps'[Len(newMaps')] = newMap]_vars

\* The render loop shows the vertical blinker, published first, while the
\* horizontal one, published second, is in the channel.
C15_Witness ==
    /\ cellMap = MapOf(Blinker)
    /\ Coords(currentMap) = VerticalBlinker
    /\ Len(newMaps) = 1
    /\ Coords(newMaps[1]) = HorizontalBlinker
    /\ schedPc = "sleep"

\* C18: every generation the render loop takes from the channel is the
\* successor, by the rule, of the generation it showed until then, which
\* at the start is the starting map: the k-th one taken is the k-th
\* successor of the starting map, none skipped and none taken twice.  A
\* frame that finds the channel empty keeps the generation on display.
C18_RenderTakesInOrder ==
    [][(renderPc = "poll" /\ renderPc' = "input") =>
           IF newMaps # <<>>
           THEN /\ WellKeyed(currentMap')
                /\ Coords(currentMap') = RuleNext(Coords(currentMap))
                /\ newMaps' = Tail(newMaps)
           ELSE currentMap' = currentMap /\ newMaps' = newMaps]_vars

\* Started on the diagonal, the render loop shows its second successor,
\* the empty generation, taken after the first, the single cell (1,1).
C18_Witness ==
    /\ cellMap = MapOf(Diagonal)
    /\ renderPc = "input"
    /\ currentMap = EmptyMap
    /\ newMaps = <<>>

----------------------------------------------------------------------------
(* The program with the time spent in a fan-in                             *)

\* PROCESS_FREQUENCY_MILLISECONDS pass while getNewCellMap is in its fan-in
\* loop.  No statement of the loop reads a clock, so nothing else changes.
IntervalElapses ==
    /\ gnPc = "fanin"
    /\ ~overdue
    /\ overdue' = TRUE
    /\ UNCHANGED <<tickVars, schedVars, refs>>

NextTimed ==
    \/ SchedFireSkip /\ UNCHANGED auxVars
    \/ SchedFireRun /\ overdue' = FALSE /\ UNCHANGED refs
    \/ Worker /\ UNCHANGED auxVars
    \/ FanIn /\ UNCHANGED auxVars
    \/ IntervalElapses
    \/ SchedAssign /\ UNCHANGED auxVars
    \/ SchedPublish /\ UNCHANGED auxVars
    \/ RenderPoll /\ UNCHANGED auxVars
    \/ RenderInputEnter /\ UNCHANGED auxVars
    \/ RenderInputNone /\ UNCHANGED auxVars

SpecTimed == Init /\ [][NextTimed]_vars

\* C11: once a tick interval has passed in a fan-in that is not complete,
\* the driver gives the tick up: getNewCellMap does not go on to return a
\* generation from that fan-in.
C11_WaitBoundedByInterval ==
    [][(gnPc = "fanin" /\ overdue) => gnPc' # "returned"]_vars

----------------------------------------------------------------------------
(* The program with the map objects behind its references                  *)

Range(s) == {s[i] : i \in DOMAIN s}

\* The objects some reference holds.
Live(r) ==
    ({r.shown, r.next, r.toProcess, r.newMap} \cup Range(r.chan)
         \cup Range(r.sent)) \ {NoMap}

\* `make(map[string]*Cell)` at a site: an object that no reference holds,
\* the first such number.
Fresh(r, site, w) ==
    MapObject(site, w,
        CHOOSE n \in 1..(Cardinality(Live(r)) + 1) :
            /\ MapObject(site, w, n) \notin Live(r)
            /\ \A j \in 1..(n - 1) : MapObject(site, w, j) \in Live(r))

\* getNewCellMap filling the map it was given.
allocNewMapInPlace(r) == r.next

\* `newMap := make(map[string]*Cell)` in getNewCellMap, called with r.next.
allocNewMap(r) == Fresh(r, "getNewCellMap", 0)

\* toProcess := nextMapToProcess; nextMapToProcess = nil; getNewCellMap up
\* to its fan-in loop, or to its return on the sequential path.
FireRunRefs ==
    /\ SchedFireRun
    /\ refs' = [refs EXCEPT !.toProcess = refs.next,
                            !.next = NoMap,
                            !.newMap = allocNewMap(refs),
                            !.sent = <<>>]
    /\ UNCHANGED overdue

\* processChunk: `chunkMap := make(...)`, filled, then sent.
WorkerRefs ==
    /\ \E w \in pending :
           /\ ProcessChunk(w)
           /\ refs' = [refs EXCEPT !.sent = Append(@, Fresh(refs, "processChunk", w))]
    /\ UNCHANGED schedVars
    /\ UNCHANGED overdue

\* The receive of one chunkMap, merged into newMap and dropped.
FanInRefs ==
    /\ FanIn
    /\ refs' = [refs EXCEPT !.sent = Tail(@)]
    /\ UNCHANGED overdue

\* nextMapToProcess = copyCellMap(newMap)
AssignRefs ==
    /\ SchedAssign
    /\ refs' = [refs EXCEPT !.next = Fresh(refs, "copyCellMap", 0)]
    /\ UNCHANGED overdue

\* maps <- copyCellMap(newMap), and the end of the loop body, where
\* toProcess and newMap go out of scope.
PublishRefs ==
    /\ SchedPublish
    /\ refs' = [refs EXCEPT !.chan = Append(@, Fresh(refs, "copyCellMap", 0)),
                            !.toProcess = NoMap,
                            !.newMap = NoMap]
    /\ UNCHANGED overdue

\* currentMap = newMap, for the map received if there is one.
PollRefs ==
    /\ RenderPoll
    /\ refs' = [refs EXCEPT !.shown = selectNewMap(refs.chan, refs.shown).map,
                            !.chan = selectNewMap(refs.chan, refs.shown).ch]
    /\ UNCHANGED overdue

NextRefs ==
    \/ SchedFireSkip /\ UNCHANGED auxVars
    \/ FireRunRefs
    \/ WorkerRefs
    \/ FanInRefs
    \/ AssignRefs
    \/ PublishRefs
    \/ PollRefs
    \/ RenderInputEnter /\ UNCHANGED auxVars
    \/ RenderInputNone /\ UNCHANGED auxVars

SpecRefs == Init /\ [][NextRefs]_vars

\* The maps the render loop can read: the one on display and those it can
\* receive.
ReadableByRender(r) == ({r.shown} \cup Range(r.chan)) \ {NoMap}

\* The map the processChunk goroutines still running read.
ReadableByWorkers(r) == IF pending # {} THEN {r.toProcess} ELSE {}

\* The maps that a step has handed to another goroutine or kept for the
\* next tick.
NewlyShared(r, rNext) ==
    ((Range(rNext.sent) \ Range(r.sent))
         \cup (Range(rNext.chan) \ Range(r.chan))
         \cup ({rNext.next} \ {r.next})) \ {NoMap}

\* C12: the map getNewCellMap fills is held by its newMap alone, so it is
\* not the map the tick was given, nor one a worker, the channel or the
\* render loop holds; a map sent by a worker, put in the channel or kept
\* for the next tick was allocated in the step that filled it; and the map
\* the workers read, and what waits in the channel, keep their contents.
C12_NoWriteToSharedMap ==
    /\ [](refs.newMap # NoMap =>
             /\ refs.newMap \notin ReadableByRender(refs)
             /\ refs.newMap \notin ReadableByWorkers(refs)
             /\ refs.newMap \notin {refs.toProcess, refs.next}
             /\ refs.newMap \notin Range(refs.sent))
    /\ [][/\ \A o \in NewlyShared(refs, refs') : o \notin Live(refs)
          /\ refs.toProcess # NoMap /\ refs'.toProcess # NoMap =>
                 refs'.toProcess = refs.toProcess /\ toProcess' = toProcess
          /\ \A i \in 1..Len(newMaps) :
                 \/ i <= Len(newMaps') /\ newMaps'[i] = newMaps[i]
                 \/ i = 1 /\ newMaps' = Tail(newMaps) /\ currentMap' = newMaps[1]
         ]_vars

\* In the first tick on the block the render loop draws the very map the
\* remaining workers read, while the driver has merged one result into
\* newMap and another waits in the channel.
C12_Witness ==
    /\ gnPc = "fanin"
    /\ pending # {}
    /\ completeChunks >= 1
    /\ Len(refs.sent) >= 1
    /\ refs.toProcess = refs.shown
    /\ refs.newMap # NoMap

====
